---------------------------- MODULE Spec2Model ----------------------------
(***************************************************************************)
(* A model of clawmotion: the timeline engine (ClawEngine, ClawAnimator,   *)
(* ClawMath), the chunked browser render pipeline (MotionFactory.render /  *)
(* renderChunk / stitchChunks) and the Node render pipeline                *)
(* (MotionFactory.renderNode with NodeEncoder).                            *)
(*                                                                         *)
(* Numbers that are IEEE doubles in the program are exact rationals        *)
(* <<n, d>> here (d > 0, lowest terms); an absent optional value           *)
(* (undefined) is the empty tuple <<>>.                                    *)
(***************************************************************************)
EXTENDS Integers, Sequences, FiniteSets, TLC

VARIABLES
    \* ---- ClawEngine (src/src/core/Engine.ts) ----
    clips,          \* engine.clips
    added,          \* the clips in the order addClip received them
    registry,       \* ids registered in engine.registry
    audioMain,      \* engine.audioData.get('main'), <<>> when not set
    seed,           \* engine.math.seed, as 16-bit limbs [hi, lo]
    draws,          \* number of random() calls made on engine.math
    \* The last renderToLayers call made on the scene as it is now (the three
    \* are cleared when the clip list, the registry or the audio data changes):
    tick,           \* its argument (-1: no call yet)
    activeClips,    \* its activeClips array
    layerResults,   \* per drawn clip: what the blueprint got and what was returned
    composited,     \* the clip ids in the order Compositor.composite drew their layers
    randoms         \* per drawn clip: the values its blueprint got from ctx.utils.random()

    ,
    \* ---- MotionFactory.render, chunked (src/unnamed/part_013) ----
    totalTicks,     \* config.duration * config.fps
    concurrency,    \* config.concurrency (0: not given)
    camera,         \* config.camera, the object every worker and the hook share
    jobState,       \* render's promise: idle, rendering, stitching, resolved, rejected
    crashed,        \* the process died of an 'error' event nobody listens to
    chunks,         \* per worker i: [startTick, endTick] (chunkFiles[i], workers[i])
    wpc,            \* per worker: where renderChunk is
    wtick,          \* per worker: the loop variable tick
    seeks,          \* per worker: the seekToTick calls made, [tick, camera]
    pending,        \* per worker: the seek the page has not yet carried out
    host,           \* per worker: what the page shows, [tick, camera]
    shot,           \* per worker: the screenshot being taken
    frames,         \* per worker: the frames written to the encoder's input
    files,          \* the chunk files that exist in .claw-temp
    finished,       \* the workers in the order in which renderChunk returned
    stitchList,     \* the file list handed to the concat process
    output          \* whether the final output file was produced

    ,
    \* ---- MotionFactory.renderNode with NodeEncoder (src/src/server) ----
    totalFrames,    \* Math.ceil(config.duration * config.fps)
    nodeJob,        \* renderNode's promise and position: idle, render, write,
                    \* closing, resolved, rejected
    frame,          \* the loop variable i
    encoder,        \* the ffmpeg child: none, running, dead (the process is
                    \* gone, its exit not yet handled), exited
    exitCode,       \* its exit status (-1: it could not be spawned)
    encFrames,      \* the frame numbers ffmpeg has read from its stdin
    stdinBuffer,    \* the frame numbers written to stdin and not yet read
    stdinEnded,     \* stdin.end() was called
    closeEmitted,   \* the child's 'close' event was emitted
    errorLogged,    \* the 'error' listener of the constructor ran
    nodeCrashed     \* the process died of a stream 'error' nobody listens to

    ,
    \* ---- a caller of ClawAnimator.resolve (src/src/core/Animator.ts) ----
    animation,      \* the keyframe array of the caller, in the order given
    atTick,         \* the tick argument of the last resolve call (-2: no call yet)
    resolved,       \* <<its return value>>, <<>> before the first call
    previewed       \* <<what the studio's resolveKeyframe returned for atTick>>, <<>> before that call

    ,
    \* ---- a caller of AudioTrigger.generateKeyframes (src/src/core/AudioTrigger.ts) ----
    audioData,      \* the frame array: [volume, frequencies] per tick
    triggerConfig,  \* the AudioTriggerConfig
    generated       \* <<the returned keyframe array>>, <<>> before the call

    ,
    \* ---- two ClawMath instances of one seed (src/unnamed/part_015) ----
    seedArg,        \* the constructor argument both instances were given
    instances,      \* per instance: its seed (16-bit limbs) and the calls made
                    \* on it with their results

    \* ---- the tick counts of one configuration (Factory.ts, part_013, Player.ts) ----
    cfgDuration,    \* config.duration in seconds, a rational
    cfgFps,         \* config.fps
    counted         \* per component <<its tick count>>, <<>> before it ran

engineVars == <<clips, added, registry, audioMain, seed, draws, tick,
                activeClips, layerResults, composited, randoms>>

factoryVars == <<totalTicks, concurrency, camera, jobState, crashed, chunks, wpc,
                 wtick, seeks, pending, host, shot, frames, files, finished,
                 stitchList, output>>

nodeVars == <<totalFrames, nodeJob, frame, encoder, exitCode, encFrames,
              stdinBuffer, stdinEnded, closeEmitted, errorLogged, nodeCrashed>>

animVars == <<animation, atTick, resolved, previewed>>

triggerVars == <<audioData, triggerConfig, generated>>

mathVars == <<seedArg, instances>>

tickVars == <<cfgDuration, cfgFps, counted>>

libVars == <<animVars, triggerVars, mathVars, tickVars>>

vars == <<engineVars, factoryVars, nodeVars, libVars>>

-----------------------------------------------------------------------------
(* Bounds of the model *)

MaxClips == 3
MaxTick == 21
MaxDraws == 2
MaxTotalTicks == 4
MaxConcurrency == 3
MaxFrames == 3
MaxKeyframes == 3
MaxAnimTick == 11
MaxAudioLen == 4
MaxCooldown == 3
MaxCalls == 3
MaxHalfSeconds == 5
MaxFps == 3

-----------------------------------------------------------------------------
(* Rational arithmetic for the program's floating point expressions *)

Abs(n) == IF n < 0 THEN -n ELSE n

Min(a, b) == IF a < b THEN a ELSE b

RECURSIVE GCD(_, _)
GCD(a, b) == IF b = 0 THEN a ELSE GCD(b, a % b)

Rat(n, d) ==
    LET g == GCD(Abs(n), Abs(d))
        s == IF d < 0 THEN -1 ELSE 1
    IN  <<(s * n) \div g, (s * d) \div g>>

RAdd(a, b) == Rat(a[1] * b[2] + b[1] * a[2], a[2] * b[2])
RSub(a, b) == Rat(a[1] * b[2] - b[1] * a[2], a[2] * b[2])
RMul(a, b) == Rat(a[1] * b[1], a[2] * b[2])
RLess(a, b) == a[1] * b[2] < b[1] * a[2]
RMin(a, b) == IF RLess(b, a) THEN b ELSE a
Zero == <<0, 1>>
One == <<1, 1>>

-----------------------------------------------------------------------------
(* ClawMath (src/unnamed/part_015) *)

Limb == 65536
SeedDefault == 123456
LcgA == 1664525
LcgC == 1013904223

ToLimbs(n) == [hi |-> n \div Limb, lo |-> n % Limb]

\* seed = (a * seed + c) % 2^32, computed on 16-bit limbs
LcgNext(s) ==
    LET a == ToLimbs(LcgA)
        c == ToLimbs(LcgC)
        low == a.lo * s.lo + c.lo
        carry == low \div Limb
        high == ((a.hi * s.lo) % Limb) + ((a.lo * s.hi) % Limb) + c.hi + carry
    IN  [hi |-> high % Limb, lo |-> low % Limb]

RECURSIVE LcgAdvance(_, _)
LcgAdvance(s, n) == IF n = 0 THEN s ELSE LcgAdvance(LcgNext(s), n - 1)

\* A constructor that mixes the identity of the instance into the seed.
NewClawMathPerInstance(inst, seedValue) == ToLimbs(seedValue + inst)

\* new ClawMath(seed): this.seed = seed
NewClawMath(inst, seedValue) == ToLimbs(seedValue)

\* the seeds the two instances are constructed with
SeedArgs == {0, 1, SeedDefault, 2147483600}

\* the (min, max) pairs range is called with
RangeArgs == {<<-5, 5>>, <<0, 10>>}

\* range(min, max) = min + random() * (max - min); a result is kept as the
\* triple of min, the numerator of random() (over 2^32) and max - min
RangeValue(min, s, max) == [min |-> min, random |-> s, span |-> max - min]

MathIdle ==
    instances = [i \in 1..2 |-> [seed |-> NewClawMath(i, seedArg), calls |-> <<>>]]

MathInit ==
    /\ seedArg \in SeedArgs
    /\ MathIdle

\* random() on instance i
Random(i) ==
    LET next == LcgNext(instances[i].seed)
    IN  /\ Len(instances[i].calls) < MaxCalls
        /\ instances' = [instances EXCEPT
               ![i] = [seed |-> next,
                       calls |-> Append(@.calls,
                           [fn |-> "random", args |-> <<>>, result |-> next])]]
        /\ UNCHANGED <<engineVars, factoryVars, nodeVars, tickVars, animVars, triggerVars,
                       seedArg>>

\* range(min, max) on instance i
Range(i, min, max) ==
    LET next == LcgNext(instances[i].seed)
    IN  /\ Len(instances[i].calls) < MaxCalls
        /\ instances' = [instances EXCEPT
               ![i] = [seed |-> next,
                       calls |-> Append(@.calls,
                           [fn |-> "range", args |-> <<min, max>>,
                            result |-> RangeValue(min, next, max)])]]
        /\ UNCHANGED <<engineVars, factoryVars, nodeVars, tickVars, animVars, triggerVars,
                       seedArg>>

MathNext ==
    \/ \E i \in 1..2 : Random(i)
    \/ \E i \in 1..2 : \E a \in RangeArgs : Range(i, a[1], a[2])

easeInOutQuad(t) ==
    IF RLess(t, <<1, 2>>)
    THEN RMul(<<2, 1>>, RMul(t, t))
    ELSE RAdd(<<-1, 1>>, RMul(RSub(<<4, 1>>, RMul(<<2, 1>>, t)), t))

\* The Easing table; the two exponential curves are irrational and are not
\* used by any keyframe of the model.
Easing(name, t) ==
    CASE name = "linear" -> t
      [] name = "easeInQuad" -> RMul(t, t)
      [] name = "easeOutQuad" -> RMul(t, RSub(<<2, 1>>, t))
      [] name = "easeInOutQuad" -> easeInOutQuad(t)
      [] name = "easeInCubic" -> RMul(t, RMul(t, t))
      [] OTHER -> t

-----------------------------------------------------------------------------
(* Array.prototype.sort(cmp): stable, so the result is the insertion of each
   element, in array order, after every element that does not compare
   greater than it. The sort works on the indices 1..n of the array;
   cmp[i, j] is the comparator's value for the elements at i and j. *)

\* An unstable sort: the element goes before the elements it compares equal to.
InsertSortedUnstable(sorted, x, cmp) ==
    LET keep == {i \in 1..Len(sorted) : cmp[sorted[i], x] < 0}
        p == IF keep = {} THEN 0 ELSE CHOOSE i \in keep : \A j \in keep : j <= i
    IN  SubSeq(sorted, 1, p) \o <<x>> \o SubSeq(sorted, p + 1, Len(sorted))

InsertSorted(sorted, x, cmp) ==
    LET keep == {i \in 1..Len(sorted) : cmp[sorted[i], x] <= 0}
        p == IF keep = {} THEN 0 ELSE CHOOSE i \in keep : \A j \in keep : j <= i
    IN  SubSeq(sorted, 1, p) \o <<x>> \o SubSeq(sorted, p + 1, Len(sorted))

\* the sorted order of the indices 1..n
SortIndices(n, cmp) ==
    LET F[i \in 0..n] == IF i = 0 THEN <<>> ELSE InsertSorted(F[i - 1], i, cmp)
    IN  F[n]

Permute(s, perm) == [k \in 1..Len(s) |-> s[perm[k]]]

-----------------------------------------------------------------------------
(* ClawAnimator (src/src/core/Animator.ts) *)

\* A comparator that sorts by descending tick.
KeyframeOrderDescending(a, b) == b.tick - a.tick

KeyframeOrder(a, b) == a.tick - b.tick

\* No sort: the array is used as given.
SortKeyframesNone(kfs) == kfs

SortKeyframes(kfs) ==
    Permute(kfs, SortIndices(Len(kfs),
        [i, j \in 1..Len(kfs) |-> KeyframeOrder(kfs[i], kfs[j])]))

\* The step tween of non-numeric values.
interpolateStep(a, b, t) == IF RLess(t, One) THEN a ELSE b

interpolate(a, b, t) == RAdd(a, RMul(RSub(b, a), t))

\* The easing of the keyframe that opens the segment.
SegmentEasingOfCurrent(current, next) == current.easing

\* next.easing ? Easing[next.easing] : Easing.linear
SegmentEasing(current, next) == next.easing

resolve(keyframes, t) ==
    IF Len(keyframes) = 0 THEN <<>>
    ELSE
      LET sorted == SortKeyframes(keyframes)
          n == Len(sorted)
          hit == {i \in 1..(n - 1) : t >= sorted[i].tick /\ t < sorted[i + 1].tick}
      IN  IF t <= sorted[1].tick THEN sorted[1].value
          ELSE IF t >= sorted[n].tick THEN sorted[n].value
          ELSE IF hit = {} THEN sorted[1].value
          ELSE
            LET i == CHOOSE k \in hit : \A j \in hit : k <= j
                current == sorted[i]
                next == sorted[i + 1]
                range == next.tick - current.tick
                progress == Rat(t - current.tick, range)
                easing == SegmentEasing(current, next)
                easedProgress ==
                    IF easing = "" THEN progress ELSE Easing(easing, progress)
            IN  interpolate(current.value, next.value, easedProgress)

\* The keyframes a caller builds its arrays from: a pair on tick 0 and a pair
\* on tick 10 with different values, and two keyframes in between.
KeyframePool ==
    { [tick |-> 0, value |-> <<0, 1>>, easing |-> ""],
      [tick |-> 0, value |-> <<7, 1>>, easing |-> "linear"],
      [tick |-> 10, value |-> <<100, 1>>, easing |-> "linear"],
      [tick |-> 10, value |-> <<40, 1>>, easing |-> "easeInQuad"],
      [tick |-> 4, value |-> <<20, 1>>, easing |-> ""],
      [tick |-> 6, value |-> <<8, 1>>, easing |-> "easeInOutQuad"] }

KeyframeArrays ==
    UNION {[1..n -> KeyframePool] : n \in 0..MaxKeyframes}

AnimIdle == atTick = -2 /\ resolved = <<>> /\ previewed = <<>>

AnimInit ==
    /\ animation \in KeyframeArrays
    /\ AnimIdle

\* ClawAnimator.resolve(animation, t) is called
Resolve(t) ==
    /\ atTick' = t
    /\ resolved' = <<resolve(animation, t)>>
    /\ previewed' = <<>>
    /\ UNCHANGED <<engineVars, factoryVars, nodeVars, tickVars, triggerVars, mathVars,
                   animation>>

\* the studio engine (src/studio/src/core/Engine.ts) has its own table of
\* easing functions
easingFunctions(name, t) ==
    CASE name = "linear" -> t
      [] name = "easeInQuad" -> RMul(t, t)
      [] name = "easeOutQuad" -> RMul(t, RSub(<<2, 1>>, t))
      [] name = "easeInOutQuad" -> easeInOutQuad(t)
      [] name = "easeInCubic" -> RMul(t, RMul(t, t))
      [] name = "easeOutCubic" ->
            RAdd(RMul(RSub(t, One), RMul(RSub(t, One), RSub(t, One))), One)

\* the studio engine's resolveKeyframe; every value of the model is a number
resolveKeyframe(keyframes, t) ==
    IF Len(keyframes) = 0 THEN <<>>
    ELSE
      LET sorted == SortKeyframes(keyframes)
          n == Len(sorted)
          hit == {i \in 1..(n - 1) : t >= sorted[i].tick /\ t <= sorted[i + 1].tick}
      IN  IF t <= sorted[1].tick THEN sorted[1].value
          ELSE IF t >= sorted[n].tick THEN sorted[n].value
          ELSE IF hit = {} THEN sorted[n].value
          ELSE
            LET i == CHOOSE k \in hit : \A j \in hit : k <= j
                k1 == sorted[i]
                k2 == sorted[i + 1]
                tt == Rat(t - k1.tick, k2.tick - k1.tick)
                easedT == IF k1.easing = "" THEN tt ELSE easingFunctions(k1.easing, tt)
            IN  RAdd(k1.value, RMul(RSub(k2.value, k1.value), easedT))

\* the studio preview resolves the same animation at the same tick
ResolveKeyframe ==
    /\ resolved # <<>> /\ previewed = <<>>
    /\ previewed' = <<resolveKeyframe(animation, atTick)>>
    /\ UNCHANGED <<engineVars, factoryVars, nodeVars, tickVars, triggerVars, mathVars,
                   animation, atTick, resolved>>

AnimNext ==
    \/ \E t \in -1..MaxAnimTick : Resolve(t)
    \/ ResolveKeyframe

-----------------------------------------------------------------------------
(* MotionFactory.render with parallel chunks (src/unnamed/part_013) *)

\* the value the per-tick hook gives config.camera for a tick
OnTickValue(t) == t
\* config.camera as the caller passed it to render
InitialCamera == -1

CeilDiv(a, b) == (a + b - 1) \div b

\* A chunk size rounded down.
ChunkSizeFloor(total, conc) == total \div conc

\* Math.ceil(totalTicks / concurrency)
ChunkSize(total, conc) == CeilDiv(total, conc)

\* config.concurrency || 1
Concurrency(c) == IF c = 0 THEN 1 ELSE c

\* the chunks the for loop of render creates, which stops at the first i
\* whose startTick >= totalTicks
Chunks(total, conc) ==
    LET size == ChunkSize(total, conc)
        made == {i \in 0..(conc - 1) : \A k \in 0..i : k * size < total}
    IN  [i \in 1..Cardinality(made) |->
            [startTick |-> (i - 1) * size, endTick |-> Min(i * size, total)]]

Workers == 1..Len(chunks)

FactoryIdle ==
    /\ jobState = "idle"
    /\ camera = InitialCamera
    /\ crashed = FALSE
    /\ chunks = <<>>
    /\ wpc = <<>> /\ wtick = <<>> /\ seeks = <<>> /\ pending = <<>>
    /\ host = <<>> /\ shot = <<>> /\ frames = <<>>
    /\ files = {}
    /\ finished = <<>>
    /\ stitchList = <<>>
    /\ output = FALSE

FactoryInit ==
    /\ totalTicks \in 1..MaxTotalTicks
    /\ concurrency \in 0..MaxConcurrency
    /\ FactoryIdle

\* render up to "await Promise.all(workers)": every renderChunk call has run
\* to its first await
Render ==
    /\ jobState = "idle"
    /\ jobState' = "rendering"
    /\ chunks' = Chunks(totalTicks, Concurrency(concurrency))
    /\ wpc' = [w \in 1..Len(chunks') |-> "launch"]
    /\ wtick' = [w \in 1..Len(chunks') |-> chunks'[w].startTick]
    /\ seeks' = [w \in 1..Len(chunks') |-> <<>>]
    /\ pending' = [w \in 1..Len(chunks') |-> <<>>]
    /\ host' = [w \in 1..Len(chunks') |-> [tick |-> -1, camera |-> InitialCamera]]
    /\ shot' = [w \in 1..Len(chunks') |-> <<>>]
    /\ frames' = [w \in 1..Len(chunks') |-> <<>>]
    /\ UNCHANGED <<engineVars, nodeVars, libVars, totalTicks, concurrency, camera, crashed, files, finished,
                   stitchList, output>>

\* bridge.seekToTick(tick, {camera: config.camera, ...}) is called
Seek(t) == [tick |-> t, camera |-> camera]

\* launch, page set-up and the encoder are ready; the loop issues its first seek
Launched(w) ==
    /\ ~crashed /\ wpc[w] = "launch"
    /\ wpc' = [wpc EXCEPT ![w] = "seek"]
    /\ seeks' = [seeks EXCEPT ![w] = Append(@, Seek(wtick[w]))]
    /\ pending' = [pending EXCEPT ![w] = <<Seek(wtick[w])>>]
    /\ UNCHANGED <<engineVars, nodeVars, libVars, totalTicks, concurrency, camera, jobState, crashed, chunks, wtick,
                   host, shot, frames, files, finished, stitchList, output>>

\* the page applies the override and renders the tick (PuppeteerBridge.seekToTick)
HostRender(w) ==
    /\ ~crashed /\ pending[w] # <<>>
    /\ host' = [host EXCEPT ![w] = pending[w][1]]
    /\ pending' = [pending EXCEPT ![w] = <<>>]
    /\ UNCHANGED <<engineVars, nodeVars, libVars, totalTicks, concurrency, camera, jobState, crashed, chunks, wpc,
                   wtick, seeks, shot, frames, files, finished, stitchList, output>>

\* A seek that is not awaited.
SeekSettledNoAwait(w) == TRUE

\* await bridge.seekToTick(...): the page has carried the seek out
SeekSettled(w) == pending[w] = <<>>

\* the seek resolved: bridge.captureFrame() takes the screenshot
AfterSeek(w) ==
    /\ ~crashed /\ wpc[w] = "seek" /\ SeekSettled(w)
    /\ shot' = [shot EXCEPT ![w] = <<host[w]>>]
    /\ wpc' = [wpc EXCEPT ![w] = "capture"]
    /\ UNCHANGED <<engineVars, nodeVars, libVars, totalTicks, concurrency, camera, jobState, crashed, chunks, wtick,
                   seeks, pending, host, frames, files, finished, stitchList, output>>

\* the capture resolved: passThrough.write(frame); onTick(tick); tick++, and
\* either the next seek is called or the input is ended and the worker waits
\* for the encoder's 'end' or 'error'. ffmpeg creates the chunk file when
\* its input starts, with the first frame, and keeps it open from then on.
AfterCapture(w) ==
    LET t == wtick[w] + 1
        more == t < chunks[w].endTick
        next == [tick |-> t, camera |-> OnTickValue(wtick[w])]
    IN  /\ ~crashed /\ wpc[w] = "capture"
        /\ frames' = [frames EXCEPT ![w] = Append(@, shot[w][1])]
        /\ shot' = [shot EXCEPT ![w] = <<>>]
        /\ files' = IF frames[w] = <<>> THEN files \cup {w} ELSE files
        /\ camera' = OnTickValue(wtick[w])
        /\ wtick' = [wtick EXCEPT ![w] = t]
        /\ wpc' = [wpc EXCEPT ![w] = IF more THEN "seek" ELSE "waitEnd"]
        /\ seeks' = [seeks EXCEPT ![w] = IF more THEN Append(@, next) ELSE @]
        /\ pending' = [pending EXCEPT ![w] = IF more THEN <<next>> ELSE @]
        /\ UNCHANGED <<engineVars, nodeVars, libVars, totalTicks, concurrency, jobState, crashed, chunks, host,
                       finished, stitchList, output>>

\* onTick(tick) has been called by worker w for tick t: the loop calls it at
\* the end of the iteration of t, just before tick++
HookCalled(w, t) == t >= chunks[w].startTick /\ t < wtick[w]

\* the worker's browser is launched and bridge.close() has not been called
HostOpen(w) == wpc[w] \in {"seek", "capture", "waitEnd"}

\* the worker's ffmpeg process is spawned and has not ended
EncoderRunning(w) == wpc[w] \in {"seek", "capture", "waitEnd"}

\* the encoder's 'end' event: the promise resolves and bridge.close() is called
EncoderEnd(w) ==
    /\ ~crashed /\ wpc[w] = "waitEnd"
    /\ wpc' = [wpc EXCEPT ![w] = "close"]
    /\ UNCHANGED <<engineVars, nodeVars, libVars, totalTicks, concurrency, camera, jobState, crashed, chunks, wtick,
                   seeks, pending, host, shot, frames, files, finished, stitchList,
                   output>>

\* A list in descending chunk index.
ChunkFilesDescending == [i \in 1..Len(chunks) |-> Len(chunks) + 1 - i]

\* chunkFiles, in the order of the loop that pushed them
ChunkFiles == [i \in 1..Len(chunks) |-> i]

\* A catch that swallows the worker's rejection.
JobAfterRejectSwallowed(js) == js

\* await Promise.all(workers) throws on the first rejection; the finally
\* block runs and render's promise rejects
JobAfterReject(js) == IF js = "rendering" THEN "rejected" ELSE js

\* bridge.close() resolved: renderChunk returns. When it is the last worker,
\* Promise.all resolves and stitchChunks writes the list and starts the
\* concat process.
WorkerDone(w) ==
    LET pcs == [wpc EXCEPT ![w] = "done"]
        all == \A v \in Workers : pcs[v] = "done"
    IN  /\ ~crashed /\ wpc[w] = "close"
        /\ wpc' = pcs
        /\ finished' = Append(finished, w)
        /\ jobState' = IF all /\ jobState = "rendering" THEN "stitching" ELSE jobState
        /\ stitchList' = IF all /\ jobState = "rendering" THEN ChunkFiles ELSE stitchList
        /\ UNCHANGED <<engineVars, nodeVars, libVars, totalTicks, concurrency, camera, crashed, chunks, wtick, seeks,
                       pending, host, shot, frames, files, output>>

\* the finally block of render: the chunk files that exist are deleted
FilesAfterSettle(js) == IF js \in {"rendering", "stitching"} THEN {} ELSE files

\* launch, page.evaluate, seekToTick, captureFrame or close throws, or the
\* encoder emits 'error' while the worker waits for it: renderChunk rejects
WorkerReject(w) ==
    /\ ~crashed /\ wpc[w] \in {"launch", "seek", "capture", "waitEnd", "close"}
    /\ wpc' = [wpc EXCEPT ![w] = "failed"]
    /\ jobState' = JobAfterReject(jobState)
    /\ files' = FilesAfterSettle(jobState)
    /\ UNCHANGED <<engineVars, nodeVars, libVars, totalTicks, concurrency, camera, crashed, chunks, wtick, seeks,
                   pending, host, shot, frames, finished, stitchList, output>>

\* the encoder emits 'error' while the loop still runs: no listener is
\* attached yet (they are added after passThrough.end()), so the event is
\* thrown as an uncaught exception
EncoderErrorUnheard(w) ==
    /\ ~crashed /\ wpc[w] \in {"seek", "capture"}
    /\ crashed' = TRUE
    /\ UNCHANGED <<engineVars, nodeVars, libVars, totalTicks, concurrency, camera, jobState, chunks, wpc, wtick,
                   seeks, pending, host, shot, frames, files, finished, stitchList,
                   output>>

\* the concat process ends: stitchChunks resolves, the finally block runs
StitchEnd ==
    /\ ~crashed /\ jobState = "stitching"
    /\ jobState' = "resolved"
    /\ output' = TRUE
    /\ files' = FilesAfterSettle(jobState)
    /\ UNCHANGED <<engineVars, nodeVars, libVars, totalTicks, concurrency, camera, crashed, chunks, wpc, wtick,
                   seeks, pending, host, shot, frames, finished, stitchList>>

\* the concat process fails: stitchChunks rejects, the finally block runs
StitchError ==
    /\ ~crashed /\ jobState = "stitching"
    /\ jobState' = "rejected"
    /\ files' = FilesAfterSettle(jobState)
    /\ UNCHANGED <<engineVars, nodeVars, libVars, totalTicks, concurrency, camera, crashed, chunks, wpc, wtick,
                   seeks, pending, host, shot, frames, finished, stitchList, output>>

FactoryNext ==
    \/ Render
    \/ \E w \in Workers : Launched(w)
    \/ \E w \in Workers : HostRender(w)
    \/ \E w \in Workers : AfterSeek(w)
    \/ \E w \in Workers : AfterCapture(w)
    \/ \E w \in Workers : EncoderEnd(w)
    \/ \E w \in Workers : WorkerDone(w)
    \/ \E w \in Workers : WorkerReject(w)
    \/ \E w \in Workers : EncoderErrorUnheard(w)
    \/ StitchEnd
    \/ StitchError

-----------------------------------------------------------------------------
(* MotionFactory.renderNode and NodeEncoder *)

NodeIdle ==
    /\ nodeJob = "idle"
    /\ frame = 0
    /\ encoder = "none"
    /\ exitCode = 0
    /\ encFrames = <<>>
    /\ stdinBuffer = <<>>
    /\ stdinEnded = FALSE
    /\ closeEmitted = FALSE
    /\ errorLogged = FALSE
    /\ nodeCrashed = FALSE

NodeInit ==
    /\ totalFrames \in 1..MaxFrames
    /\ NodeIdle

NodeRunning == ~nodeCrashed /\ nodeJob \in {"render", "write", "closing"}

\* renderNode up to the loop: the engine is set up and new NodeEncoder(...)
\* spawns ffmpeg and attaches the logging 'error' listener
RenderNode ==
    /\ nodeJob = "idle"
    /\ nodeJob' = "render"
    /\ encoder' = "running"
    /\ UNCHANGED <<engineVars, factoryVars, libVars, totalFrames, stdinBuffer, frame, exitCode, encFrames,
                   stdinEnded, closeEmitted, errorLogged, nodeCrashed>>

\* engine.renderToInternalCanvas(i); await canvas.toBuffer('raw')
RenderToInternalCanvas ==
    /\ ~nodeCrashed /\ nodeJob = "render"
    /\ nodeJob' = "write"
    /\ UNCHANGED <<engineVars, factoryVars, libVars, totalFrames, stdinBuffer, frame, encoder, exitCode,
                   encFrames, stdinEnded, closeEmitted, errorLogged, nodeCrashed>>

\* the engine or the canvas throws: renderNode rejects
RenderThrows ==
    /\ ~nodeCrashed /\ nodeJob \in {"render", "write"}
    /\ nodeJob' = "rejected"
    /\ UNCHANGED <<engineVars, factoryVars, libVars, totalFrames, stdinBuffer, frame, encoder, exitCode,
                   encFrames, stdinEnded, closeEmitted, errorLogged, nodeCrashed>>

\* close(): the 'close' listener calls resolve() whatever the status
CloseOutcome(code) == "resolved"

\* writeFrame(buffer): the write is queued on stdin when stdin is not
\* destroyed, and is not awaited; i++; after the last frame encoder.close() ends stdin and
\* attaches its 'close' listener. stdin has no 'error' listener: a write to
\* a child that is gone but whose exit is not yet handled is a broken pipe
\* that ends the process.
WriteFrame ==
    LET last == frame + 1 >= totalFrames
    IN  /\ ~nodeCrashed /\ nodeJob = "write"
        /\ frame' = frame + 1
        /\ stdinBuffer' = IF encoder = "running" THEN Append(stdinBuffer, frame)
                          ELSE stdinBuffer
        /\ nodeCrashed' = (encoder = "dead")
        /\ nodeJob' = IF last THEN "closing" ELSE "render"
        /\ stdinEnded' = last
        /\ UNCHANGED <<engineVars, factoryVars, libVars, totalFrames, encoder, exitCode,
                       encFrames, closeEmitted, errorLogged>>

\* ffmpeg reads one frame from its stdin pipe: the write of that frame is
\* accepted (its callback and 'drain' are what an awaited write would wait
\* for)
StdinAccept ==
    /\ ~nodeCrashed /\ encoder = "running" /\ stdinBuffer # <<>>
    /\ encFrames' = Append(encFrames, Head(stdinBuffer))
    /\ stdinBuffer' = Tail(stdinBuffer)
    /\ UNCHANGED <<engineVars, factoryVars, libVars, totalFrames, nodeJob, frame, encoder,
                   exitCode, stdinEnded, closeEmitted, errorLogged, nodeCrashed>>

\* ffmpeg could not be spawned: the child emits 'error', which the
\* constructor's listener logs, and its stdin is destroyed
EncoderError ==
    /\ NodeRunning /\ encoder = "running" /\ encFrames = <<>> /\ frame = 0
    /\ encoder' = "exited"
    /\ exitCode' = -1
    /\ errorLogged' = TRUE
    /\ UNCHANGED <<engineVars, factoryVars, libVars, totalFrames, stdinBuffer, nodeJob, frame, encFrames,
                   stdinEnded, closeEmitted, nodeCrashed>>

\* the ffmpeg process ends: with status 0 once its input has ended, with a
\* non-zero status at any time
EncoderDies(code) ==
    /\ NodeRunning /\ encoder = "running"
    /\ code = 0 => (stdinEnded /\ stdinBuffer = <<>>)
    /\ encoder' = "dead"
    /\ exitCode' = code
    /\ UNCHANGED <<engineVars, factoryVars, libVars, totalFrames, stdinBuffer, nodeJob, frame, encFrames,
                   stdinEnded, closeEmitted, errorLogged, nodeCrashed>>

\* the child's exit is handled: its stdin is destroyed with what it held
EncoderExit ==
    /\ NodeRunning /\ encoder = "dead"
    /\ encoder' = "exited"
    /\ stdinBuffer' = <<>>
    /\ UNCHANGED <<engineVars, factoryVars, libVars, totalFrames, nodeJob, frame, exitCode,
                   encFrames, stdinEnded, closeEmitted, errorLogged, nodeCrashed>>

\* the child emits 'close': the listener of close(), when it is attached by
\* then, settles renderNode's promise; otherwise the event is lost
EncoderClose ==
    /\ NodeRunning /\ encoder = "exited" /\ ~closeEmitted
    /\ closeEmitted' = TRUE
    /\ nodeJob' = IF nodeJob = "closing" THEN CloseOutcome(exitCode) ELSE nodeJob
    /\ UNCHANGED <<engineVars, factoryVars, libVars, totalFrames, stdinBuffer, frame, encoder, exitCode,
                   encFrames, stdinEnded, errorLogged, nodeCrashed>>

NodeNext ==
    \/ RenderNode
    \/ RenderToInternalCanvas
    \/ RenderThrows
    \/ WriteFrame
    \/ StdinAccept
    \/ EncoderError
    \/ \E code \in {0, 1} : EncoderDies(code)
    \/ EncoderExit
    \/ EncoderClose

-----------------------------------------------------------------------------
(* AudioTrigger (src/src/core/AudioTrigger.ts) *)

\* A cooldown that is never checked.
CooldownOverAlways(t, lastTriggerTick, cooldownTicks) == TRUE

\* t - lastTriggerTick >= config.cooldownTicks
CooldownOver(t, lastTriggerTick, cooldownTicks) == t - lastTriggerTick >= cooldownTicks

\* val of a frame: frame.volume, or frame.frequencies[frequencyBin] || 0, or 0
TriggerValue(fr, config) ==
    IF config.type = "volume" THEN fr.volume
    ELSE IF config.type = "frequency" /\ config.frequencyBin # <<>>
    THEN IF config.frequencyBin[1] + 1 <= Len(fr.frequencies)
         THEN fr.frequencies[config.frequencyBin[1] + 1] ELSE 0
    ELSE 0

\* A peak offset rounded up.
MidPointCeil(durationTicks) == CeilDiv(durationTicks, 5)

\* Math.floor(config.reaction.durationTicks * 0.2)
MidPoint(durationTicks) == durationTicks \div 5

\* the three keyframes pushed for a trigger at tick t; the base value is 0 and
\* the peak value 1, and reaction.easing is not given
TriggerSequence(t, config) ==
    LET midPoint == MidPoint(config.durationTicks)
    IN  << [tick |-> t, value |-> Zero, easing |-> ""],
           [tick |-> t + midPoint, value |-> One, easing |-> "easeOutQuad"],
           [tick |-> t + config.durationTicks, value |-> Zero,
            easing |-> "easeInOutQuad"] >>

\* the loop of generateKeyframes from frame t on
RECURSIVE TriggerScan(_, _, _, _)
TriggerScan(data, config, t, lastTriggerTick) ==
    IF t >= Len(data) THEN <<>>
    ELSE IF /\ TriggerValue(data[t + 1], config) >= config.threshold
            /\ CooldownOver(t, lastTriggerTick, config.cooldownTicks)
         THEN TriggerSequence(t, config) \o TriggerScan(data, config, t + 1, t)
         ELSE TriggerScan(data, config, t + 1, lastTriggerTick)

generateKeyframes(data, config) ==
    SortKeyframes(TriggerScan(data, config, 0, -config.cooldownTicks))

FramePool ==
    { [volume |-> 0, frequencies |-> <<2>>],
      [volume |-> 1, frequencies |-> <<1>>],
      [volume |-> 2, frequencies |-> <<0>>] }

TriggerConfigs ==
    [type : {"volume", "frequency"}, frequencyBin : {<<>>, <<0>>},
     threshold : {1, 2}, cooldownTicks : 0..MaxCooldown, durationTicks : {2, 5}]

DefaultTriggerConfig ==
    [type |-> "volume", frequencyBin |-> <<>>, threshold |-> 1,
     cooldownTicks |-> 0, durationTicks |-> 2]

TriggerIdle == generated = <<>>

TriggerInit ==
    /\ audioData \in UNION {[1..n -> FramePool] : n \in 0..MaxAudioLen}
    /\ triggerConfig \in TriggerConfigs
    /\ TriggerIdle

\* AudioTrigger.generateKeyframes(audioData, triggerConfig) is called
GenerateKeyframes ==
    /\ generated = <<>>
    /\ generated' = <<generateKeyframes(audioData, triggerConfig)>>
    /\ UNCHANGED <<engineVars, factoryVars, nodeVars, tickVars, animVars, mathVars,
                   audioData, triggerConfig>>

TriggerNext == GenerateKeyframes

-----------------------------------------------------------------------------
(* The tick count of a configuration, as each component computes it. The
   durations of the model are multiples of half a second, for which the
   floating point product duration * fps is exact. *)

RFloor(a) == a[1] \div a[2]
RCeil(a) == (a[1] + a[2] - 1) \div a[2]

\* ClawEngine.toTicks: Math.floor(seconds * this.config.fps)
toTicks(seconds, fps) == RFloor(RMul(seconds, <<fps, 1>>))

\* renderNode: const totalFrames = Math.ceil(config.duration * config.fps),
\* the bound of the frame loop
TotalFrames(duration, fps) == RCeil(RMul(duration, <<fps, 1>>))

\* render of part_013: totalTicks = config.duration * config.fps is not
\* rounded; chunkSize = Math.ceil(totalTicks / concurrency); chunk i runs
\* for (tick = startTick; tick < endTick; tick++) with
\* endTick = Math.min((i + 1) * chunkSize, totalTicks), and the loop over i
\* stops at the first startTick >= totalTicks. The value is the set of
\* <<chunk, tick>> pairs rendered.
RenderedTicks(duration, fps, conc) ==
    LET total == RMul(duration, <<fps, 1>>)
        chunkSize == RCeil(RMul(total, <<1, conc>>))
        made == {i \in 0..(conc - 1) :
                    \A k \in 0..i : RLess(<<k * chunkSize, 1>>, total)}
    IN  {ct \in made \X (0..(conc * chunkSize)) :
            /\ ct[2] >= ct[1] * chunkSize
            /\ ct[2] < (ct[1] + 1) * chunkSize
            /\ RLess(<<ct[2], 1>>, total)}

\* Player.loop: playback pauses once currentTick >= toTicks(config.duration)
PlayerStopTick(duration, fps) == toTicks(duration, fps)

Durations == {<<h, 2>> : h \in {k \in 1..MaxHalfSeconds : k % 2 = 1}}
               \cup {<<h \div 2, 1>> : h \in {k \in 1..MaxHalfSeconds : k % 2 = 0}}

TickIdle == counted = [node |-> <<>>, chunked |-> <<>>, player |-> <<>>]

TickInit ==
    /\ cfgDuration \in Durations
    /\ cfgFps \in 1..MaxFps
    /\ TickIdle

\* renderNode runs its frame loop to the end
CountRenderNode ==
    /\ counted.node = <<>>
    /\ counted' = [counted EXCEPT !.node = <<TotalFrames(cfgDuration, cfgFps)>>]
    /\ UNCHANGED <<engineVars, factoryVars, nodeVars, animVars, triggerVars, mathVars,
                   cfgDuration, cfgFps>>

\* the chunked render runs with config.concurrency = conc: the number of
\* frames its workers write
CountRender(conc) ==
    /\ counted.chunked = <<>>
    /\ counted' = [counted EXCEPT
           !.chunked = <<Cardinality(RenderedTicks(cfgDuration, cfgFps, conc))>>]
    /\ UNCHANGED <<engineVars, factoryVars, nodeVars, animVars, triggerVars, mathVars,
                   cfgDuration, cfgFps>>

\* the player plays to the end and pauses
PlayerPause ==
    /\ counted.player = <<>>
    /\ counted' = [counted EXCEPT !.player = <<PlayerStopTick(cfgDuration, cfgFps)>>]
    /\ UNCHANGED <<engineVars, factoryVars, nodeVars, animVars, triggerVars, mathVars,
                   cfgDuration, cfgFps>>

TickNext ==
    \/ CountRenderNode
    \/ \E conc \in 1..MaxConcurrency : CountRender(conc)
    \/ PlayerPause

-----------------------------------------------------------------------------
(* The scene: clips, blueprints and audio frames the engine is given *)

Keyframe(t, v, e) == [tick |-> t, value |-> <<v, 1>>, easing |-> e]
Transition(ty, d) == <<[type |-> ty, durationTicks |-> d]>>

ClipPool ==
    { [id |-> "bg", blueprintId |-> "rect", startTick |-> 0, durationTicks |-> 20,
       layer |-> <<>>, props |-> [x |-> <<5, 1>>], animations |-> <<>>,
       entry |-> Transition("fade", 3), exit |-> <<>>],
      [id |-> "a", blueprintId |-> "rect", startTick |-> 5, durationTicks |-> 10,
       layer |-> <<0>>, props |-> [x |-> <<1, 1>>, y |-> <<2, 1>>],
       animations |-> [x |-> <<Keyframe(10, 100, "linear"), Keyframe(0, 0, "")>>,
                       y |-> <<>>],
       entry |-> Transition("fade", 4), exit |-> Transition("fade", 8)],
      [id |-> "c", blueprintId |-> "spark", startTick |-> 5, durationTicks |-> 3,
       layer |-> <<0>>, props |-> <<>>, animations |-> <<>>,
       entry |-> Transition("zoom", 2), exit |-> Transition("zoom", 3)],
      [id |-> "low", blueprintId |-> "spark", startTick |-> 2, durationTicks |-> 6,
       layer |-> <<-1>>, props |-> <<>>, animations |-> <<>>,
       entry |-> Transition("slide", 3), exit |-> Transition("slide", 5)] }

BlueprintIds == {"rect", "spark"}

\* random() calls one invocation of the blueprint makes on ctx.utils
BlueprintDraws(id) == IF id = "spark" THEN 1 ELSE 0

\* frames of the 'main' audio track: one entry (the volume) per tick
AudioTracks == { <<<<3>>, <<1>>, <<4>>, <<1>>, <<5>>, <<9>>>> }

-----------------------------------------------------------------------------
(* ClawEngine (src/src/core/Engine.ts) *)

LayerOf(c) == IF c.layer = <<>> THEN 0 ELSE c.layer[1]

\* A comparator that forgets the start tick.
ClipOrderLayerOnly(a, b) == LayerOf(a) - LayerOf(b)

\* (a.layer || 0) - (b.layer || 0) || a.startTick - b.startTick
ClipOrder(a, b) ==
    IF LayerOf(a) - LayerOf(b) # 0 THEN LayerOf(a) - LayerOf(b)
    ELSE a.startTick - b.startTick

\* A comparator that puts the higher layer first.
LayerOrderDescending(a, b) == LayerOf(b) - LayerOf(a)

\* (a.layer || 0) - (b.layer || 0)
LayerOrder(a, b) == LayerOf(a) - LayerOf(b)

addClip(list, clip) ==
    LET arr == Append(list, clip)
    IN  Permute(arr, SortIndices(Len(arr),
            [i, j \in 1..Len(arr) |-> ClipOrder(arr[i], arr[j])]))

\* An end tick taken as inclusive.
IsActiveInclusive(c, t) == t >= c.startTick /\ t <= c.startTick + c.durationTicks

IsActive(c, t) == t >= c.startTick /\ t < c.startTick + c.durationTicks

ActiveClips(list, t) ==
    LET arr == SelectSeq(list, LAMBDA c : IsActive(c, t))
    IN  Permute(arr, SortIndices(Len(arr),
            [i, j \in 1..Len(arr) |-> LayerOrder(arr[i], arr[j])]))

AudioAt(track, t) == IF t + 1 <= Len(track) THEN track[t + 1] ELSE <<>>

\* An entry fade that runs from opaque to transparent.
EntryFadeInverted(eased) == RSub(One, eased)

\* if (clip.entry.type === 'fade') opacity = eased
EntryFade(eased) == eased

\* A local tick that is the timeline tick.
LocalTickGlobal(clip, t) == t

\* const localTick = tick - clip.startTick
LocalTick(clip, t) == t - clip.startTick

\* The body of the activeClips.map callback for a clip whose blueprint is
\* registered: the context handed to the blueprint and the value returned.
DrawClip(eng, clip, t) ==
    LET localTick == LocalTick(clip, t)
        localTime == Rat(localTick, clip.durationTicks)
        audio == AudioAt(eng.audioMain, t)
        inEntry == clip.entry # <<>> /\ localTick < clip.entry[1].durationTicks
        eIn == easeInOutQuad(Rat(localTick, clip.entry[1].durationTicks))
        opacity1 == IF inEntry /\ clip.entry[1].type = "fade" THEN EntryFade(eIn)
                    ELSE One
        transY1 == IF inEntry /\ clip.entry[1].type = "slide"
                   THEN RMul(RSub(One, eIn), <<50, 1>>) ELSE Zero
        scale1 == IF inEntry /\ clip.entry[1].type = "zoom"
                  THEN RAdd(<<9, 10>>, RMul(eIn, <<1, 10>>)) ELSE One
        ticksRemaining == clip.durationTicks - localTick
        inExit == clip.exit # <<>> /\ ticksRemaining < clip.exit[1].durationTicks
        eOut == easeInOutQuad(Rat(ticksRemaining, clip.exit[1].durationTicks))
        opacity == IF inExit /\ clip.exit[1].type = "fade"
                   THEN RMin(opacity1, eOut) ELSE opacity1
        translateY == IF inExit /\ clip.exit[1].type = "slide"
                      THEN RMul(RSub(One, eOut), <<-50, 1>>) ELSE transY1
        scale == IF inExit /\ clip.exit[1].type = "zoom"
                 THEN RMul(scale1, RAdd(<<9, 10>>, RMul(eOut, <<1, 10>>)))
                 ELSE scale1
        resolvedProps ==
            [k \in DOMAIN clip.props \cup DOMAIN clip.animations |->
                IF k \in DOMAIN clip.animations
                THEN resolve(clip.animations[k], localTick)
                ELSE clip.props[k]]
    IN  [clip |-> clip, tick |-> t, localTime |-> localTime, audio |-> audio,
         props |-> resolvedProps, opacity |-> opacity,
         transform |-> [translateX |-> Zero, translateY |-> translateY,
                        scale |-> scale]]

\* A map that stops at the first clip whose blueprint is missing.
DrawnUntilMissing(eng, t) ==
    LET ac == ActiveClips(eng.clips, t)
        missing == {i \in 1..Len(ac) : ac[i].blueprintId \notin eng.registry}
    IN  IF missing = {} THEN ac
        ELSE SubSeq(ac, 1, (CHOOSE i \in missing : \A j \in missing : i <= j) - 1)

\* the clips for which the map callback does not return null
Drawn(eng, t) ==
    SelectSeq(ActiveClips(eng.clips, t), LAMBDA c : c.blueprintId \in eng.registry)

\* A horizontal jitter taken from the engine's generator state.
LayerResultsJitter(eng, t) ==
    LET drawn == Drawn(eng, t)
    IN  [i \in 1..Len(drawn) |->
            [DrawClip(eng, drawn[i], t) EXCEPT
                !.transform.translateX = <<eng.seed.lo % 2, 1>>]]

\* renderToLayers' return value (the null entries filtered out)
LayerResults(eng, t) ==
    LET drawn == Drawn(eng, t)
    IN  [i \in 1..Len(drawn) |-> DrawClip(eng, drawn[i], t)]

RECURSIVE SumDraws(_)
SumDraws(s) ==
    IF s = <<>> THEN 0 ELSE BlueprintDraws(Head(s).blueprintId) + SumDraws(Tail(s))

\* the values the blueprints of the clips in drawn get from utils.random(),
\* one after the other, on a generator whose seed is s
RECURSIVE RandomsFrom(_, _)
RandomsFrom(s, drawn) ==
    IF drawn = <<>> THEN <<>>
    ELSE LET n == BlueprintDraws(Head(drawn).blueprintId)
         IN  <<[k \in 1..n |-> LcgAdvance(s, k)]>>
                 \o RandomsFrom(LcgAdvance(s, n), Tail(drawn))

\* utils: this.math, the engine's one generator
Randoms(eng, t) == RandomsFrom(eng.seed, Drawn(eng, t))

ThisEngine ==
    [clips |-> clips, registry |-> registry, audioMain |-> audioMain, seed |-> seed]

\* new ClawEngine(config) followed by addClip for each clip of the list
RECURSIVE AddAll(_, _)
AddAll(list, cs) == IF cs = <<>> THEN list ELSE AddAll(addClip(list, Head(cs)), Tail(cs))

FreshEngine ==
    [clips |-> AddAll(<<>>, added), registry |-> registry, audioMain |-> audioMain,
     seed |-> ToLimbs(SeedDefault)]

\* Player.render: compositeLayers = layerData.map(...), and composite draws
\* one layer per entry, in array order
Composite(layerData) == [i \in 1..Len(layerData) |-> layerData[i].clip.id]

NoRender ==
    /\ tick = -1
    /\ activeClips = <<>>
    /\ layerResults = <<>>
    /\ composited = <<>>
    /\ randoms = <<>>

ClearRender ==
    /\ tick' = -1
    /\ activeClips' = <<>>
    /\ layerResults' = <<>>
    /\ composited' = <<>>
    /\ randoms' = <<>>

EngineInitOnly ==
    /\ clips = <<>>
    /\ added = <<>>
    /\ registry = {}
    /\ audioMain = <<>>
    /\ seed = ToLimbs(SeedDefault)
    /\ draws = 0
    /\ NoRender

\* no keyframe array was resolved
AnimUnused == animation = <<>> /\ AnimIdle

\* no audio trigger was generated
TriggerUnused ==
    /\ audioData = <<>>
    /\ triggerConfig = DefaultTriggerConfig
    /\ TriggerIdle

\* no ClawMath instance besides the engine's was made
MathUnused == seedArg = SeedDefault /\ MathIdle

\* no tick count was computed
TicksUnused == cfgDuration = One /\ cfgFps = 1 /\ TickIdle

\* no caller of the library functions has run
LibIdle == AnimUnused /\ TriggerUnused /\ MathUnused /\ TicksUnused

\* everything but the library callers is as constructed
ProgramIdle ==
    /\ EngineInitOnly
    /\ totalTicks = 1 /\ concurrency = 0
    /\ FactoryIdle
    /\ totalFrames = 1
    /\ NodeIdle

EngineInit ==
    /\ EngineInitOnly
    /\ totalTicks = 1 /\ concurrency = 0
    /\ FactoryIdle
    /\ totalFrames = 1
    /\ NodeIdle
    /\ LibIdle

AddClip(c) ==
    /\ UNCHANGED <<factoryVars, nodeVars, libVars>>
    /\ Len(added) < MaxClips
    /\ \A i \in 1..Len(added) : added[i].id # c.id
    /\ clips' = addClip(clips, c)
    /\ added' = Append(added, c)
    /\ ClearRender
    /\ UNCHANGED <<registry, audioMain, seed, draws>>

Register(id) ==
    /\ UNCHANGED <<factoryVars, nodeVars, libVars>>
    /\ id \notin registry
    /\ registry' = registry \cup {id}
    /\ ClearRender
    /\ UNCHANGED <<clips, added, audioMain, seed, draws>>

SetAudioData(track) ==
    /\ UNCHANGED <<factoryVars, nodeVars, libVars>>
    /\ audioMain # track
    /\ audioMain' = track
    /\ ClearRender
    /\ UNCHANGED <<clips, added, registry, seed, draws>>

RenderToLayers(t) ==
    LET n == SumDraws(Drawn(ThisEngine, t))
    IN  /\ draws + n <= MaxDraws
        /\ tick' = t
        /\ activeClips' = ActiveClips(clips, t)
        /\ layerResults' = LayerResults(ThisEngine, t)
        /\ composited' = Composite(LayerResults(ThisEngine, t))
        /\ randoms' = Randoms(ThisEngine, t)
        /\ seed' = LcgAdvance(seed, n)
        /\ draws' = draws + n
        /\ UNCHANGED <<clips, added, registry, audioMain>>
        /\ UNCHANGED <<factoryVars, nodeVars, libVars>>

EngineNext ==
    \/ \E c \in ClipPool : AddClip(c)
    \/ \E id \in BlueprintIds : Register(id)
    \/ \E track \in AudioTracks : SetAudioData(track)
    \/ \E t \in 0..MaxTick : RenderToLayers(t)

SpecEngine == EngineInit /\ [][EngineNext]_vars

\* a chunked render is about to be called; nothing else has run
RenderInit ==
    /\ FactoryInit
    /\ EngineInitOnly
    /\ totalFrames = 1
    /\ NodeIdle
    /\ LibIdle

SpecFactory == RenderInit /\ [][FactoryNext]_vars

\* a Node render is about to be called; nothing else has run
RenderNodeInit ==
    /\ NodeInit
    /\ EngineInitOnly
    /\ totalTicks = 1 /\ concurrency = 0
    /\ FactoryIdle
    /\ LibIdle

SpecNode == RenderNodeInit /\ [][NodeNext]_vars

\* What the event loop and the child process guarantee: a started render
\* goes on, frame after frame, to encoder.close(); ffmpeg reads its input and
\* ends once the input has ended; a child that has ended emits 'exit' and
\* then 'close'. A failure (RenderThrows, EncoderError, a non-zero status)
\* may happen and need not.
NodeFairness ==
    /\ WF_vars(RenderToInternalCanvas)
    /\ WF_vars(WriteFrame)
    /\ WF_vars(StdinAccept)
    /\ WF_vars(EncoderDies(0))
    /\ WF_vars(EncoderExit)
    /\ WF_vars(EncoderClose)

SpecNodeFair == RenderNodeInit /\ [][NodeNext]_vars /\ NodeFairness

\* a keyframe array is handed to ClawAnimator.resolve
ResolveInit ==
    /\ AnimInit
    /\ ProgramIdle
    /\ TriggerUnused
    /\ MathUnused
    /\ TicksUnused

SpecAnimator == ResolveInit /\ [][AnimNext]_vars

\* a frame array and a configuration are handed to generateKeyframes
GenerateInit ==
    /\ TriggerInit
    /\ ProgramIdle
    /\ AnimUnused
    /\ MathUnused
    /\ TicksUnused

SpecTrigger == GenerateInit /\ [][TriggerNext]_vars

\* two ClawMath instances are constructed with one seed
TwoMathInit ==
    /\ MathInit
    /\ ProgramIdle
    /\ AnimUnused
    /\ TriggerUnused
    /\ TicksUnused

SpecMath == TwoMathInit /\ [][MathNext]_vars

\* one configuration is handed to the renderers and to the player
TickCountInit ==
    /\ TickInit
    /\ ProgramIdle
    /\ AnimUnused
    /\ TriggerUnused
    /\ MathUnused

SpecTicks == TickCountInit /\ [][TickNext]_vars


-----------------------------------------------------------------------------
(* Claims about the engine *)

IndexIn(s, c) == CHOOSE i \in 1..Len(s) : s[i] = c
InSeq(s, c) == \E i \in 1..Len(s) : s[i] = c
ClipsOf(results) == [i \in 1..Len(results) |-> results[i].clip]

\* C2: for a fixed clip list, audio data and registry, what renderToLayers
\* computes for a tick (the active clips and their order, and per clip the
\* localTime, opacity, transform, merged props and audio frame) is what an
\* engine freshly built from the same clip list computes for that tick,
\* whatever this engine rendered before.
C2_TickValuesIndependentOfHistory ==
    tick >= 0 =>
        /\ activeClips = ActiveClips(FreshEngine.clips, tick)
        /\ layerResults = LayerResults(FreshEngine, tick)

\* An engine whose generator was advanced by earlier renders draws clips at a
\* tick > 0 without advancing it in this call.
C2_Witness ==
    /\ tick > 0
    /\ seed # ToLimbs(SeedDefault)
    /\ layerResults # <<>>
    /\ \A i \in 1..Len(layerResults) :
          BlueprintDraws(layerResults[i].clip.blueprintId) = 0

\* C8: a clip of the engine is among the clips processed at tick T iff
\* startTick <= T < startTick + durationTicks.
C8_ActiveIffInRange ==
    tick >= 0 =>
        \A i \in 1..Len(clips) :
            InSeq(activeClips, clips[i])
                <=> (clips[i].startTick <= tick
                     /\ tick < clips[i].startTick + clips[i].durationTicks)

\* The clip with startTick 0 and durationTicks 20 is left out at tick 20.
C8_Witness ==
    /\ tick = 20
    /\ \E i \in 1..Len(clips) :
          /\ clips[i].startTick = 0 /\ clips[i].durationTicks = 20
          /\ ~InSeq(activeClips, clips[i])

\* C9: the clip list is sorted non-decreasing by (layer, startTick), a missing
\* layer counting as 0.
C9_ClipsSorted ==
    \A i \in 1..(Len(clips) - 1) :
        \/ LayerOf(clips[i]) < LayerOf(clips[i + 1])
        \/ /\ LayerOf(clips[i]) = LayerOf(clips[i + 1])
           /\ clips[i].startTick <= clips[i + 1].startTick

\* Three clips, one without a layer, were added in an order that is not the
\* sorted one.
C9_Witness ==
    /\ Len(clips) = 3
    /\ clips # added
    /\ \E i \in 1..3 : clips[i].layer = <<>>

\* C10 as stated: active clips of equal layer are processed in the order in
\* which addClip received them.
C10_EqualLayerInInsertionOrder ==
    \A i, j \in 1..Len(activeClips) :
        (i < j /\ LayerOf(activeClips[i]) = LayerOf(activeClips[j]))
            => IndexIn(added, activeClips[i]) < IndexIn(added, activeClips[j])

\* C10 amended: active clips of equal layer are processed, and returned for
\* compositing, in non-decreasing startTick order, and those that also have
\* the same startTick in the order in which addClip received them.
C10_EqualLayerByStartThenInsertion ==
    /\ \A i, j \in 1..Len(activeClips) :
          (i < j /\ LayerOf(activeClips[i]) = LayerOf(activeClips[j]))
              => \/ activeClips[i].startTick < activeClips[j].startTick
                 \/ /\ activeClips[i].startTick = activeClips[j].startTick
                    /\ IndexIn(added, activeClips[i]) < IndexIn(added, activeClips[j])
    /\ \A i, j \in 1..Len(layerResults) :
          i < j => IndexIn(activeClips, layerResults[i].clip)
                     < IndexIn(activeClips, layerResults[j].clip)

\* Three active clips of layer 0, two of them with the same startTick, the
\* one that starts first having been added last.
C10_Witness ==
    /\ Len(activeClips) = 3
    /\ Len(layerResults) >= 2
    /\ \A i \in 1..3 : LayerOf(activeClips[i]) = 0
    /\ activeClips[2].startTick = activeClips[3].startTick
    /\ added[3] = activeClips[1]

\* C11: of two clips active at the same tick, the one with the lower layer is
\* processed first, and when both are drawn it is returned first and its
\* layer is drawn first by the compositor, so the higher layer ends on top.
C11_LowerLayerDrawnFirst ==
    tick >= 0 =>
        /\ \A i, j \in 1..Len(activeClips) :
              LayerOf(activeClips[i]) < LayerOf(activeClips[j]) => i < j
        /\ \A i, j \in 1..Len(layerResults) :
              LayerOf(layerResults[i].clip) < LayerOf(layerResults[j].clip) => i < j
        /\ Len(composited) = Len(layerResults)
        /\ \A i \in 1..Len(composited) : composited[i] = layerResults[i].clip.id

\* Three layers were composited, the lowest one for the clip added last.
C11_Witness ==
    /\ Len(composited) = 3
    /\ LayerOf(layerResults[1].clip) < LayerOf(layerResults[3].clip)
    /\ added[3] = layerResults[1].clip

\* C12: the localTime handed to the blueprint of every clip drawn at a tick
\* satisfies 0 <= localTime < 1.
C12_LocalTimeInUnitInterval ==
    tick >= 0 =>
        \A i \in 1..Len(layerResults) :
            /\ ~RLess(layerResults[i].localTime, Zero)
            /\ RLess(layerResults[i].localTime, One)

\* Two clips are drawn at their last active tick, a third in its middle.
C12_Witness ==
    /\ Len(layerResults) = 3
    /\ Cardinality({i \in 1..Len(layerResults) :
          /\ tick = layerResults[i].clip.startTick + layerResults[i].clip.durationTicks - 1
          /\ layerResults[i].localTime # Zero}) = 2

\* C19: for a drawn clip with an entry fade of D > 0 ticks and no exit
\* transition, the opacity returned at local tick L is easeInOutQuad(L / D)
\* for L < D, which is 0 at L = 0, and 1 for every L >= D.
C19_EntryFadeOpacity ==
    tick >= 0 =>
        \A i \in 1..Len(layerResults) :
            LET c == layerResults[i].clip
                L == tick - c.startTick
            IN  (c.entry # <<>> /\ c.exit = <<>>) =>
                    ((c.entry[1].type = "fade" /\ c.entry[1].durationTicks > 0) =>
                        /\ L < c.entry[1].durationTicks =>
                              layerResults[i].opacity =
                                  easeInOutQuad(Rat(L, c.entry[1].durationTicks))
                        /\ L = 0 => layerResults[i].opacity = Zero
                        /\ L >= c.entry[1].durationTicks =>
                              layerResults[i].opacity = One)

\* A clip with an entry fade of 3 ticks and no exit is drawn at local tick 2
\* with opacity 7/9.
C19_Witness ==
    \E i \in 1..Len(layerResults) :
        /\ layerResults[i].clip.entry = Transition("fade", 3)
        /\ layerResults[i].clip.exit = <<>>
        /\ tick - layerResults[i].clip.startTick = 2
        /\ layerResults[i].opacity = <<7, 9>>

\* C20: a render of a tick with an active clip whose blueprintId is not
\* registered completes; that clip is left out of the result, every active
\* clip whose blueprint is registered is drawn and returned, in processing
\* order, and a clip is left out only while its blueprint is not registered.
C20_UnregisteredBlueprintSkipped ==
    tick >= 0 =>
        /\ \A i \in 1..Len(activeClips) :
              InSeq(ClipsOf(layerResults), activeClips[i])
                  <=> activeClips[i].blueprintId \in registry
        /\ Len(layerResults) =
              Cardinality({i \in 1..Len(activeClips) :
                              activeClips[i].blueprintId \in registry})
        /\ \A i \in 1..Len(layerResults) : InSeq(activeClips, layerResults[i].clip)
        /\ \A i, j \in 1..Len(layerResults) :
              i < j => IndexIn(activeClips, layerResults[i].clip)
                         < IndexIn(activeClips, layerResults[j].clip)
        /\ Len(randoms) = Len(layerResults)

\* Of three active clips the second has no registered blueprint; the first
\* and the third are returned.
C20_Witness ==
    /\ Len(activeClips) = 3
    /\ activeClips[2].blueprintId \notin registry
    /\ Len(layerResults) = 2
    /\ layerResults[1].clip = activeClips[1]
    /\ layerResults[2].clip = activeClips[3]

\* C18: the values the blueprints get from ctx.utils.random() while a tick is
\* drawn are those an engine freshly built from the same scene hands out when
\* it draws that tick first (a chunk worker starting at that tick), whatever
\* this engine rendered before.
C18_RandomValuesIndependentOfHistory ==
    tick >= 0 => randoms = Randoms(FreshEngine, tick)

\* A blueprint drew a random value from an engine whose generator an
\* earlier render had advanced.
C18_Witness ==
    /\ tick > 0
    /\ \E i \in 1..Len(randoms) : randoms[i] # <<>>
    /\ randoms # Randoms(FreshEngine, tick)

\* a layer result whose tick lies in the entry and in the exit window of its
\* clip, both transitions being of type ty
InBothWindows(r, ty) ==
    /\ r.clip.entry # <<>> /\ r.clip.exit # <<>>
    /\ r.clip.entry[1].type = ty /\ r.clip.exit[1].type = ty
    /\ r.tick - r.clip.startTick < r.clip.entry[1].durationTicks
    /\ r.clip.durationTicks - (r.tick - r.clip.startTick) < r.clip.exit[1].durationTicks

\* the eased progress of the entry and of the exit at a layer result
EntryEased(r) ==
    easeInOutQuad(Rat(r.tick - r.clip.startTick, r.clip.entry[1].durationTicks))
ExitEased(r) ==
    easeInOutQuad(Rat(r.clip.durationTicks - (r.tick - r.clip.startTick),
                      r.clip.exit[1].durationTicks))

\* C28: at a tick in both the entry and the exit window of a clip, two fades
\* give the minimum of the two opacities, two zooms the product of the two
\* scale factors, and two slides a vertical offset that is not the exit's
\* offset alone when the entry's offset is not zero.
C28_OverlapCombinesBoth ==
    \A i \in 1..Len(layerResults) :
        LET r == layerResults[i]
        IN  /\ InBothWindows(r, "fade") =>
                  r.opacity = RMin(EntryEased(r), ExitEased(r))
            /\ InBothWindows(r, "zoom") =>
                  r.transform.scale =
                      RMul(RAdd(<<9, 10>>, RMul(EntryEased(r), <<1, 10>>)),
                           RAdd(<<9, 10>>, RMul(ExitEased(r), <<1, 10>>)))
            /\ (InBothWindows(r, "slide") /\ EntryEased(r) # One) =>
                  r.transform.translateY # RMul(RSub(One, ExitEased(r)), <<-50, 1>>)

\* Clip low (slide in over 3 ticks, slide out over 5, 6 ticks long) at its
\* local tick 2: the entry offset is 100/9, the exit offset -4, and the
\* offset returned is -4.
C28_Witness ==
    \E i \in 1..Len(layerResults) :
        /\ InBothWindows(layerResults[i], "slide")
        /\ layerResults[i].clip.id = "low"
        /\ layerResults[i].tick = 4
        /\ RMul(RSub(One, EntryEased(layerResults[i])), <<50, 1>>) = <<100, 9>>
        /\ layerResults[i].transform.translateY = <<-4, 1>>

\* C29: a property whose keyframe list is empty keeps the clip's static value
\* in the props handed to the blueprint.
C29_EmptyAnimationKeepsStatic ==
    \A i \in 1..Len(layerResults) :
        LET r == layerResults[i]
        IN  \A k \in DOMAIN r.clip.animations \cap DOMAIN r.clip.props :
                r.clip.animations[k] = <<>> => r.props[k] = r.clip.props[k]

\* Clip a (static y = 2, animations.y = []) was drawn and its blueprint got
\* y undefined.
C29_Witness ==
    \E i \in 1..Len(layerResults) :
        /\ layerResults[i].clip.id = "a"
        /\ layerResults[i].clip.props.y = <<2, 1>>
        /\ layerResults[i].clip.animations.y = <<>>
        /\ layerResults[i].props.y = <<>>

-----------------------------------------------------------------------------
(* Claims about the chunked render *)

AllFrames == {<<w, i>> \in Workers \X (1..MaxTotalTicks + 1) : i <= Len(frames[w])}
Increasing(ts) == \A i \in 1..(Len(ts) - 1) : ts[i] < ts[i + 1]
TicksOf(s) == [i \in 1..Len(s) |-> s[i].tick]

\* C1: the chunks render creates are contiguous and non-overlapping and cover
\* [0, totalTicks) exactly once, so that after a successful render every tick
\* was captured by exactly one worker and totalTicks frames were captured.
C1_ChunksPartitionTicks ==
    jobState # "idle" =>
        /\ Len(chunks) >= 1
        /\ chunks[1].startTick = 0
        /\ chunks[Len(chunks)].endTick = totalTicks
        /\ \A i \in 1..Len(chunks) : chunks[i].startTick < chunks[i].endTick
        /\ \A i \in 1..(Len(chunks) - 1) : chunks[i].endTick = chunks[i + 1].startTick
        /\ jobState \in {"stitching", "resolved"} =>
              /\ Cardinality(AllFrames) = totalTicks
              /\ \A t \in 0..(totalTicks - 1) :
                    Cardinality({f \in AllFrames : frames[f[1]][f[2]].tick = t}) = 1

\* A render of unequal chunks, fewer than the concurrency asked for, resolved.
C1_Witness ==
    /\ jobState = "resolved"
    /\ Len(chunks) >= 2
    /\ Len(chunks) < concurrency
    /\ totalTicks = MaxTotalTicks

\* C3: the camera override a worker passes to its render host for tick t is
\* the value the per-tick hook sets for tick t.
C3_OverrideIsHookValueOfTick ==
    \A w \in Workers : \A i \in 1..Len(seeks[w]) :
        seeks[w][i].camera = OnTickValue(seeks[w][i].tick)

\* A worker sends for a tick of its own chunk the camera that the hook set
\* for a tick of another worker's chunk.
C3_Witness ==
    \E w \in Workers : \E v \in Workers \ {w} : \E i \in 1..Len(seeks[w]) :
        /\ seeks[w][i].camera # seeks[w][i].tick
        /\ seeks[w][i].camera >= chunks[v].startTick
        /\ seeks[w][i].camera < chunks[v].endTick

\* C21: when a worker asks its render host to seek to tick t, the hook has
\* been invoked for t, and the frame captured for t shows the value the hook
\* sets for t.
C21_HookBeforeSeek ==
    \A w \in Workers :
        /\ \A i \in 1..Len(seeks[w]) : HookCalled(w, seeks[w][i].tick)
        /\ \A i \in 1..Len(frames[w]) :
              frames[w][i].camera = OnTickValue(frames[w][i].tick)

\* The only worker has written the frame of its second tick, which shows the
\* value the hook set for the first tick.
C21_Witness ==
    /\ Len(chunks) = 1
    /\ Len(frames[1]) >= 2
    /\ frames[1][2].camera = OnTickValue(frames[1][1].tick)
    /\ frames[1][2].camera # OnTickValue(frames[1][2].tick)

\* C23: once the job was rejected because a worker failed, every worker's
\* render host is closed, every worker's encode process has ended, and no
\* chunk file exists, then and in every later state.
C23_AbortLeavesNothingBehind ==
    (jobState = "rejected" /\ \E w \in Workers : wpc[w] = "failed") =>
        /\ \A w \in Workers : ~HostOpen(w) /\ ~EncoderRunning(w)
        /\ files = {}

\* The job was rejected when worker 1 failed before worker 2 had written a
\* frame; worker 2 went on, its encoder created its chunk file after the
\* clean-up and it now waits for the encoder with its browser open.
C23_Witness ==
    /\ jobState = "rejected"
    /\ Len(chunks) >= 2
    /\ wpc[1] = "failed" /\ frames[1] = <<>>
    /\ wpc[2] = "waitEnd"
    /\ files = {2}

\* C4: within one worker the ticks sought are strictly increasing, a seek is
\* issued only when every earlier tick of the worker has been captured and
\* written, and the frames reach the encoder in that same increasing order,
\* each showing the tick that was sought for it.
C4_SequentialWithinWorker ==
    \A w \in Workers :
        /\ Increasing(TicksOf(seeks[w]))
        /\ Increasing(TicksOf(frames[w]))
        /\ Len(frames[w]) <= Len(seeks[w])
        /\ Len(seeks[w]) <= Len(frames[w]) + 1
        /\ \A i \in 1..Len(frames[w]) : frames[w][i].tick = seeks[w][i].tick
        /\ pending[w] # <<>> => Len(seeks[w]) = Len(frames[w]) + 1

\* A worker has written two frames and waits for its third seek.
C4_Witness ==
    \E w \in Workers :
        /\ Len(frames[w]) = 2
        /\ wpc[w] = "seek"
        /\ pending[w] # <<>>

\* C5: the concat process is started only when every worker has returned
\* successfully, and its list is the chunk files in ascending chunk index.
C5_StitchAfterAllInIndexOrder ==
    (jobState \in {"stitching", "resolved"} \/ stitchList # <<>> \/ output) =>
        /\ \A w \in Workers : wpc[w] = "done"
        /\ Len(stitchList) = Len(chunks)
        /\ \A i \in 1..Len(stitchList) : stitchList[i] = i

\* The stitch runs although the last chunk's worker returned first.
C5_Witness ==
    /\ jobState = "stitching"
    /\ Len(chunks) = 3
    /\ finished = <<3, 2, 1>>

-----------------------------------------------------------------------------
(* Claims about the Node render *)

EncoderFailed == encoder \in {"dead", "exited"} /\ exitCode # 0

\* C7: when the encode process emitted an error or ended with a non-zero
\* status, the render's promise does not resolve as a successful render.
C7_EncoderFailureNeverResolves ==
    EncoderFailed => nodeJob # "resolved"

\* The encoder died with a non-zero status before the last frame was
\* written, and renderNode resolved.
C7_Witness ==
    /\ nodeJob = "resolved"
    /\ exitCode = 1
    /\ Len(encFrames) < totalFrames

\* C22: the loop does not go on to the next frame (render it, or write it)
\* while an earlier frame's write is still waiting in stdin for ffmpeg to
\* accept it: every write is awaited.
C22_WriteAwaited ==
    (~nodeCrashed /\ nodeJob \in {"render", "write"}) => stdinBuffer = <<>>

\* The loop wrote frames 0 and 1 and is rendering the next one while ffmpeg
\* has accepted neither.
C22_Witness ==
    /\ nodeJob = "render"
    /\ encoder = "running"
    /\ stdinBuffer = <<0, 1>>
    /\ encFrames = <<>>

\* the promise renderNode returned has settled
NodeSettled == nodeJob \in {"resolved", "rejected"}

\* C25: once the encode process has ended and emitted 'close', the wait for
\* it settles and with it the render's promise, whether 'close' came before
\* or after encoder.close() was called.
C25_RenderSettles == closeEmitted ~> NodeSettled

\* The process ended and emitted 'close' while the loop was running; the
\* loop has since called encoder.close() and waits.
C25_Witness ==
    /\ nodeJob = "closing"
    /\ ~nodeCrashed
    /\ closeEmitted
    /\ encoder = "exited"

-----------------------------------------------------------------------------
(* Claims about ClawAnimator.resolve *)

KeyTicks == {animation[i].tick : i \in 1..Len(animation)}
MinKeyTick == CHOOSE m \in KeyTicks : \A k \in KeyTicks : m <= k
MaxKeyTick == CHOOSE m \in KeyTicks : \A k \in KeyTicks : m >= k
IndicesAt(tk) == {i \in 1..Len(animation) : animation[i].tick = tk}
FirstAt(tk) == CHOOSE i \in IndicesAt(tk) : \A j \in IndicesAt(tk) : i <= j
LastAt(tk) == CHOOSE i \in IndicesAt(tk) : \A j \in IndicesAt(tk) : i >= j
ArrayPermutations(n) == {p \in [1..n -> 1..n] : \A i, j \in 1..n : p[i] = p[j] => i = j}

\* the permutations that keep keyframes of equal tick in their relative order
TieKeeping(p) ==
    \A i, j \in 1..Len(animation) :
        (i < j /\ animation[p[i]].tick = animation[p[j]].tick) => p[i] < p[j]

\* C13: for a non-empty keyframe array in any order, resolve returns the value
\* of a keyframe of smallest tick (the first such in the array) for every tick
\* <= that tick, and the value of a keyframe of largest tick (the last such in
\* the array, when the tick is past the smallest) for every tick >= that tick.
C13_ClampsToFirstAndLast ==
    (resolved # <<>> /\ animation # <<>>) =>
        /\ atTick <= MinKeyTick =>
              resolved[1] = animation[FirstAt(MinKeyTick)].value
        /\ atTick >= MaxKeyTick =>
              \E i \in IndicesAt(MaxKeyTick) : resolved[1] = animation[i].value
        /\ (atTick >= MaxKeyTick /\ atTick > MinKeyTick) =>
              resolved[1] = animation[LastAt(MaxKeyTick)].value

\* An array that starts with its latest keyframe is resolved past its end.
C13_Witness ==
    /\ Len(animation) = 3
    /\ animation[1].tick = MaxKeyTick
    /\ animation[3].tick = MinKeyTick
    /\ MinKeyTick < MaxKeyTick
    /\ atTick > MaxKeyTick
    /\ resolved = <<animation[1].value>>

\* C14: at a tick strictly between two keyframes k1 and k2 that are
\* consecutive in the sorted array, k2 having linear or no easing, resolve
\* returns k1.value + (k2.value - k1.value) * (tick - k1.tick) / (k2.tick - k1.tick).
C14_LinearInterpolation ==
    resolved # <<>> =>
        \A i, j \in 1..Len(animation) :
            ( /\ animation[i].tick < atTick /\ atTick < animation[j].tick
              /\ \A k \in KeyTicks : ~(animation[i].tick < k /\ k < animation[j].tick)
              /\ i = LastAt(animation[i].tick)
              /\ j = FirstAt(animation[j].tick)
              /\ animation[j].easing \in {"", "linear"} )
            => resolved[1] =
                 RAdd(animation[i].value,
                      RMul(RSub(animation[j].value, animation[i].value),
                           Rat(atTick - animation[i].tick,
                               animation[j].tick - animation[i].tick)))

\* Keyframes (tick 10, value 100) and (tick 0, value 0) resolved at tick 5
\* give 50.
C14_Witness ==
    /\ Len(animation) = 2
    /\ animation[1].tick = 10 /\ animation[1].value = <<100, 1>>
    /\ animation[1].easing = "linear"
    /\ animation[2].tick = 0 /\ animation[2].value = <<0, 1>>
    /\ atTick = 5
    /\ resolved = << <<50, 1>> >>

\* C24: for every keyframe array and tick, the studio preview's
\* resolveKeyframe returns the value ClawAnimator.resolve returns.
C24_PreviewEqualsExport ==
    (resolved # <<>> /\ previewed # <<>>) => previewed = resolved

\* Keyframes (tick 0, no easing) and (tick 10, value 40, easeInQuad) are
\* resolved at tick 4 by both: 16/100 of the way for the export, 4/10 of the
\* way for the preview.
C24_Witness ==
    /\ animation = << [tick |-> 0, value |-> <<0, 1>>, easing |-> ""],
                      [tick |-> 10, value |-> <<40, 1>>, easing |-> "easeInQuad"] >>
    /\ atTick = 4
    /\ resolved = << <<32, 5>> >>
    /\ previewed = << <<16, 1>> >>

\* C15 as stated: every permutation of the array resolves to the same value.
C15_SameForEveryPermutation ==
    resolved # <<>> =>
        \A p \in ArrayPermutations(Len(animation)) :
            resolve(Permute(animation, p), atTick) = resolved[1]

\* C15 amended: every permutation of the array that keeps keyframes of equal
\* tick in their relative order resolves to the same value; when all ticks
\* differ that is every permutation.
C15_SameForTieKeepingPermutations ==
    resolved # <<>> =>
        \A p \in ArrayPermutations(Len(animation)) :
            TieKeeping(p) => resolve(Permute(animation, p), atTick) = resolved[1]

\* An unsorted array of three keyframes, two of them on one tick, is resolved
\* between its first and last tick.
C15_Witness ==
    /\ Len(animation) = 3
    /\ animation # SortKeyframes(animation)
    /\ Cardinality(KeyTicks) = 2
    /\ MinKeyTick < atTick /\ atTick < MaxKeyTick
    /\ resolved # <<>>

-----------------------------------------------------------------------------
(* Claims about AudioTrigger.generateKeyframes *)

\* the trigger ticks of an output: the ticks of the keyframes that open a
\* reaction (the only ones pushed without easing)
TriggerTicks(out) == {out[i].tick : i \in {k \in 1..Len(out) : out[k].easing = ""}}

AboveThreshold ==
    {t \in 0..(Len(audioData) - 1) :
        TriggerValue(audioData[t + 1], triggerConfig) >= triggerConfig.threshold}

\* C16: in the output of generateKeyframes any two distinct trigger ticks
\* differ by at least cooldownTicks (and every reaction is three keyframes).
C16_TriggersCooldownApart ==
    generated # <<>> =>
        /\ Len(generated[1]) = 3 * Cardinality(TriggerTicks(generated[1]))
        /\ TriggerTicks(generated[1]) \subseteq AboveThreshold
        /\ \A a, b \in TriggerTicks(generated[1]) :
              a < b => b - a >= triggerConfig.cooldownTicks

\* Two triggers fired and a frame above the threshold between them was
\* passed over because of the cooldown.
C16_Witness ==
    /\ generated # <<>>
    /\ Cardinality(TriggerTicks(generated[1])) = 2
    /\ triggerConfig.cooldownTicks >= 2
    /\ \E t \in AboveThreshold : \E a, b \in TriggerTicks(generated[1]) : a < t /\ t < b

\* the keyframes of an output that carry the peak value, and those that close
\* a reaction (the only ones pushed with the fall easing)
PeakIndices(out) == {i \in 1..Len(out) : out[i].value = One}
FallIndices(out) == {i \in 1..Len(out) : out[i].easing = "easeInOutQuad"}

\* every trigger of the output has its three keyframes, the peak being
\* `offset` ticks after the trigger
ThreeKeyframesEach(out, offset) ==
    LET fired == TriggerTicks(out)
    IN  /\ Len(out) = 3 * Cardinality(fired)
        /\ Cardinality(PeakIndices(out)) = Cardinality(fired)
        /\ Cardinality(FallIndices(out)) = Cardinality(fired)
        /\ \A i \in 1..Len(out) : out[i].easing = "" => out[i].value = Zero
        /\ {out[i].tick : i \in PeakIndices(out)} = {t + offset : t \in fired}
        /\ {out[i].tick : i \in FallIndices(out)} =
              {t + triggerConfig.durationTicks : t \in fired}
        /\ \A i \in FallIndices(out) : out[i].value = Zero

\* C26 as stated: a trigger fired at tick t emits exactly three keyframes, the
\* base value at t, the peak value at t + ceil(0.2 * durationTicks) and the
\* base value at t + durationTicks.
C26_PeakAtCeil ==
    generated # <<>> =>
        ThreeKeyframesEach(generated[1], CeilDiv(triggerConfig.durationTicks, 5))

\* C26 amended: the peak value is at t + floor(0.2 * durationTicks).
C26_PeakAtFloor ==
    generated # <<>> =>
        ThreeKeyframesEach(generated[1], triggerConfig.durationTicks \div 5)

\* A trigger fired with a reaction of 2 ticks: floor(0.4) = 0 and
\* ceil(0.4) = 1, and the peak keyframe is on the trigger tick itself.
C26_Witness ==
    /\ generated # <<>>
    /\ triggerConfig.durationTicks = 2
    /\ TriggerTicks(generated[1]) # {}
    /\ \E i \in PeakIndices(generated[1]) :
          generated[1][i].tick \in TriggerTicks(generated[1])

-----------------------------------------------------------------------------
(* Claims about ClawMath *)

\* the n-th result of an instance constructed with seedValue, for a call fn(args)
NthResult(seedValue, n, fn, args) ==
    IF fn = "random" THEN LcgAdvance(ToLimbs(seedValue), n)
    ELSE RangeValue(args[1], LcgAdvance(ToLimbs(seedValue), n), args[2])

\* C17: the n-th result of random() or range(min, max) on an instance depends
\* only on the seed, n and the arguments, so two instances constructed with
\* the same seed return the same n-th result for the same n-th call.
C17_SameSeedSameSequence ==
    /\ \A i \in 1..2 : \A n \in 1..Len(instances[i].calls) :
          instances[i].calls[n].result =
              NthResult(seedArg, n, instances[i].calls[n].fn, instances[i].calls[n].args)
    /\ \A n \in 1..Min(Len(instances[1].calls), Len(instances[2].calls)) :
          ( /\ instances[1].calls[n].fn = instances[2].calls[n].fn
            /\ instances[1].calls[n].args = instances[2].calls[n].args )
          => instances[1].calls[n].result = instances[2].calls[n].result

\* Both instances made three calls, the first two of them different ones and
\* the third the same range call.
C17_Witness ==
    /\ Len(instances[1].calls) = 3 /\ Len(instances[2].calls) = 3
    /\ instances[1].calls[1].fn # instances[2].calls[1].fn
    /\ instances[1].calls[2].args # instances[2].calls[2].args
    /\ instances[1].calls[3].fn = "range"
    /\ instances[1].calls[3] = instances[2].calls[3]

-----------------------------------------------------------------------------
(* Claims about the tick count *)

\* C30: every component uses the tick count ceil(duration * fps): the number
\* of frames the Node render produces, the number of frames the chunked
\* render produces, and the tick at which the player stops are all equal to
\* it.
C30_OneTickCount ==
    \A part \in DOMAIN counted :
        counted[part] # <<>> =>
            counted[part][1] = RCeil(RMul(cfgDuration, <<cfgFps, 1>>))

\* duration 1.5 s at 1 fps: both renders produce 2 frames and the player
\* stops at tick 1.
C30_Witness ==
    /\ cfgDuration = <<3, 2>> /\ cfgFps = 1
    /\ counted.node = <<2>>
    /\ counted.chunked = <<2>>
    /\ counted.player = <<1>>

====
